---- MODULE Spec2Model ----
(***************************************************************************)
(* Model of src/src/components/Reviews.tsx:                                *)
(*   - TapSafeDiv: the press/release gate in front of the card flip        *)
(*     (handleTapStart, handleTapEnd and the 250 ms setTimeout callback);  *)
(*   - ReviewsPage: the review queue (handleReview, updateCardState,       *)
(*     updateReviewStats, resetReview and the effect on the words prop).   *)
(* Times are milliseconds, as Date.now() gives them.                       *)
(***************************************************************************)
EXTENDS Integers, Sequences, FiniteSets, Bags, TLC

VARIABLES
    \* ---- TapSafeDiv (lines 19-22): the four refs, and the pending timeouts
    isLockedRef,        \* isLockedRef.current
    isExecutingRef,     \* isExecutingRef.current
    tapStartTimeRef,    \* tapStartTimeRef.current: NULL or a Date.now() value
    wasTouchRef,        \* wasTouchRef.current
    timers,             \* pending setTimeout callbacks, oldest first
    \* ---- the environment of the gate
    now,                \* Date.now()
    down,               \* the presses now held on the control: a bag of presses
    \* ---- observers of the gate (history, not program state)
    clicks,             \* number of onClick() invocations so far
    lastClickAt,        \* NULL or the time of the latest onClick()
    win,                \* the latest debounce window: who opened it, what came in
    \* ---- ReviewsPage
    arrays,             \* the Word[] arrays passed as the words prop: arrays.cur is
                        \* the prop of the current render, arrays.old the earlier ones
    cardState,          \* the state field of the Word objects of arrays.cur, .old
    reviewWords,        \* useState reviewWords (line 122): a reference to an array
    isFlipped,          \* useState isFlipped (line 123)
    reviewComplete,     \* useState reviewComplete (line 124)
    reviewStats,        \* useState reviewStats (lines 125-128)
    hasFlipped,         \* useState hasFlipped (line 129)
    pending,            \* handleReview invocations awaiting reviewFlashcard
    fetching,           \* onReviewComplete() was called, the new batch is not in yet
    \* ---- observers of the page (history, not program state)
    settled,            \* how the promise of the latest finished handleReview settled
    lastOutcome,        \* which way the latest finished handleReview went
    logged,             \* whether it called console.error (line 171)
    counted,            \* how often it called updateRemainingWordCount (line 104)
    exited              \* per key: the state in which the card left on a correct answer

gateVars == <<isLockedRef, isExecutingRef, tapStartTimeRef, wasTouchRef, timers>>
gateEnv == <<now, down>>
gateObs == <<clicks, lastClickAt, win>>
pageVars == <<arrays, cardState, reviewWords, isFlipped, reviewComplete,
              reviewStats, hasFlipped, pending, fetching>>
pageObs == <<settled, lastOutcome, logged, counted, exited>>
gateAll == <<gateVars, gateEnv, gateObs>>
vars == <<gateAll, pageVars, pageObs>>

NULL == -1              \* null (line 21); no time is negative
NoButton == -1          \* a TouchEvent has no button property (line 47)

\* ------------------------------------------------------------------ bounds
Tick == 100             \* granularity of the clock, ms
MaxTicks == 7          \* the clock stops after MaxTicks ticks
MaxPointers == 2        \* presses that can be held at once (fingers, buttons)

MaxItems == 2           \* cards in one batch
MaxReviews == 3         \* answers counted and awaited in one session
MaxPending == 2         \* handleReview invocations awaiting their record call

\* ------------------------------------------------------- program constants
TapLimitMs == 200       \* line 46: Date.now() - tapStart > 200
DebounceMs == 250       \* line 67: setTimeout(..., 250)

Buttons == {0, 2}       \* MouseEvent.button: 0 primary, 2 secondary
StartTime == Tick       \* Date.now() is never 0

\* ------------------------------------------------------------ ReviewsPage
Keys == 1..MaxItems
States == {"new", "learned", "relearning1", "relearning2"}
NoState == "none"       \* no card of this key in the batch

\* A batch of due cards: distinct keys, here 1..n in the order returned, each
\* card in any state.  Keys are labels: which keys come in which order has no
\* effect on the code.
Batches == UNION {{[keys |-> [i \in 1..n |-> i], state |-> st] :
                     st \in [1..n -> States]} : n \in 0..MaxItems}
StatesOf(batch) ==
    [k \in Keys |-> IF k \in DOMAIN batch.state THEN batch.state[k] ELSE NoState]

words == arrays.cur                    \* the words prop of the current render
NoCards == [k \in Keys |-> NoState]
Range(seq) == {seq[i] : i \in DOMAIN seq}
Remove(seq, i) == [j \in 1..(Len(seq) - 1) |-> IF j < i THEN seq[j] ELSE seq[j + 1]]

\* lines 184-211 and 296: the card, and with it the gate and the buttons, is
\* rendered when there are words to review and the review is not complete
CardView == Len(arrays[reviewWords]) > 0 /\ ~reviewComplete

\* handleInitialFlip, lines 141-144
handleInitialFlip(condition) ==
    /\ isFlipped' = condition
    /\ hasFlipped' = TRUE

\* updateCardState with the push of line 97 left out
updateCardStateNoPush97(currentCard, isCorrect, ws, st) ==
    IF ~isCorrect
      THEN IF st = "learned" \/ st = "relearning2"
             THEN [words |-> Append(ws, currentCard), state |-> "relearning1", count |-> 0]
             ELSE [words |-> ws, state |-> st, count |-> 0]
      ELSE IF st = "relearning1"
             THEN [words |-> Append(ws, currentCard), state |-> "relearning2", count |-> 0]
             ELSE [words |-> ws, state |-> st, count |-> 1]

\* updateCardState pushing the card back after every correct answer
updateCardStatePushOnCorrect(currentCard, isCorrect, ws, st) ==
    IF ~isCorrect
      THEN IF st = "learned" \/ st = "relearning2"
             THEN [words |-> Append(ws, currentCard), state |-> "relearning1", count |-> 0]
             ELSE IF st = "relearning1"
                    THEN [words |-> Append(ws, currentCard), state |-> st, count |-> 0]
                    ELSE [words |-> ws, state |-> st, count |-> 0]
      ELSE IF st = "relearning1"
             THEN [words |-> Append(ws, currentCard), state |-> "relearning2", count |-> 0]
             ELSE [words |-> Append(ws, currentCard), state |-> st, count |-> 1]

\* updateCardState with line 96 an `if`, not an `else if`: a card that line 93
\* made relearning1 is pushed again by line 97
updateCardStateIfNotElseIf(currentCard, isCorrect, ws, st) ==
    IF ~isCorrect
      THEN IF st = "learned" \/ st = "relearning2"
             THEN [words |-> Append(Append(ws, currentCard), currentCard),
                   state |-> "relearning1", count |-> 0]
             ELSE IF st = "relearning1"
                    THEN [words |-> Append(ws, currentCard), state |-> st, count |-> 0]
                    ELSE [words |-> ws, state |-> st, count |-> 0]
      ELSE IF st = "relearning1"
             THEN [words |-> Append(ws, currentCard), state |-> "relearning2", count |-> 0]
             ELSE [words |-> ws, state |-> st, count |-> 1]

\* updateCardState with words.unshift for words.push (lines 94, 97, 102)
updateCardStateUnshift(currentCard, isCorrect, ws, st) ==
    IF ~isCorrect
      THEN IF st = "learned" \/ st = "relearning2"
             THEN [words |-> <<currentCard>> \o ws, state |-> "relearning1", count |-> 0]
             ELSE IF st = "relearning1"
                    THEN [words |-> <<currentCard>> \o ws, state |-> st, count |-> 0]
                    ELSE [words |-> ws, state |-> st, count |-> 0]
      ELSE IF st = "relearning1"
             THEN [words |-> <<currentCard>> \o ws, state |-> "relearning2", count |-> 0]
             ELSE [words |-> ws, state |-> st, count |-> 1]

\* updateCardState, lines 87-108, on the card just taken from the array:
\* ws is the array without it and st its state.  Yields the array and the
\* state afterwards, and whether updateRemainingWordCount() was called.
updateCardState(currentCard, isCorrect, ws, st) ==
    IF ~isCorrect
      THEN IF st = "learned" \/ st = "relearning2"
             THEN [words |-> Append(ws, currentCard), state |-> "relearning1", count |-> 0]
             ELSE IF st = "relearning1"
                    THEN [words |-> Append(ws, currentCard), state |-> st, count |-> 0]
                    ELSE [words |-> ws, state |-> st, count |-> 0]
      ELSE IF st = "relearning1"
             THEN [words |-> Append(ws, currentCard), state |-> "relearning2", count |-> 0]
             ELSE [words |-> ws, state |-> st, count |-> 1]

\* updateReviewStats counting every answer as correct
updateReviewStatsAlwaysCorrect(prev, isCorrect) ==
    [correct |-> prev.correct + 1, incorrect |-> prev.incorrect]

\* updateReviewStats, lines 146-151
updateReviewStats(prev, isCorrect) ==
    [correct |-> IF isCorrect THEN prev.correct + 1 ELSE prev.correct,
     incorrect |-> IF ~isCorrect THEN prev.incorrect + 1 ELSE prev.incorrect]

\* a catch that logs and throws the error on
catchErrorRethrow ==
    /\ logged' = TRUE
    /\ settled' = "rejected"

\* the catch of handleReview, lines 170-172: the error is logged and swallowed,
\* the promise handleReview returned is fulfilled
catchError ==
    /\ logged' = TRUE
    /\ settled' = "fulfilled"

\* handleReview with the splice of line 159 moved before the await
handleReviewRejectedAfterSplice(c) ==
    /\ catchError
    /\ lastOutcome' = "recordfailure"
    /\ counted' = 0
    /\ arrays' = [arrays EXCEPT ![c.g] = IF @ = <<>> THEN @ ELSE Tail(@)]
    /\ UNCHANGED <<cardState, reviewWords, isFlipped, reviewComplete,
                   reviewStats, hasFlipped, exited>>

\* handleReview when reviewFlashcard rejects (line 155): straight to the catch
handleReviewRejected(c) ==
    /\ catchError
    /\ lastOutcome' = "recordfailure"
    /\ counted' = 0
    /\ UNCHANGED <<arrays, cardState, reviewWords, isFlipped, reviewComplete,
                   reviewStats, hasFlipped, exited>>

\* handleReview without the completion test of lines 166-168
handleReviewResolvedNeverComplete(c) ==
    LET ws == arrays[c.g] IN
    /\ reviewStats' = updateReviewStats(reviewStats, c.isCorrect)
    /\ IF ws = <<>>
         THEN /\ catchError
              /\ lastOutcome' = "typeerror"
              /\ counted' = 0
              /\ UNCHANGED <<arrays, cardState, reviewWords, isFlipped, reviewComplete,
                             hasFlipped, exited>>
         ELSE LET currentCard == Head(ws)
                  st == cardState[c.g][currentCard]
                  r == updateCardState(currentCard, c.isCorrect, Tail(ws), st)
              IN /\ arrays' = [arrays EXCEPT ![c.g] = r.words]
                 /\ cardState' = [cardState EXCEPT ![c.g][currentCard] = r.state]
                 /\ counted' = r.count
                 /\ reviewWords' = c.g
                 /\ isFlipped' = FALSE
                 /\ hasFlipped' = FALSE
                 /\ UNCHANGED reviewComplete
                 /\ exited' = IF c.g = "cur" /\ c.isCorrect /\ st \in {"learned", "relearning2"}
                                THEN [exited EXCEPT ![currentCard] = st] ELSE exited
                 /\ settled' = "fulfilled"
                 /\ lastOutcome' = "ok"
                 /\ logged' = FALSE

\* handleReview after reviewFlashcard resolved, lines 157-169.  c.g names the
\* words array of the render that made the handler.  On an empty array splice
\* yields no card and updateCardState throws at currentCard.state (line 90 or
\* 100), inside the try.
handleReviewResolved(c) ==
    LET ws == arrays[c.g] IN
    /\ reviewStats' = updateReviewStats(reviewStats, c.isCorrect)
    /\ IF ws = <<>>
         THEN /\ catchError
              /\ lastOutcome' = "typeerror"
              /\ counted' = 0
              /\ UNCHANGED <<arrays, cardState, reviewWords, isFlipped, reviewComplete,
                             hasFlipped, exited>>
         ELSE LET currentCard == Head(ws)
                  st == cardState[c.g][currentCard]
                  r == updateCardState(currentCard, c.isCorrect, Tail(ws), st)
              IN /\ arrays' = [arrays EXCEPT ![c.g] = r.words]
                 /\ cardState' = [cardState EXCEPT ![c.g][currentCard] = r.state]
                 /\ counted' = r.count
                 /\ reviewWords' = c.g
                 /\ isFlipped' = FALSE
                 /\ hasFlipped' = FALSE
                 /\ reviewComplete' = IF Len(r.words) = 0 THEN TRUE ELSE reviewComplete
                 /\ exited' = IF c.g = "cur" /\ c.isCorrect /\ st \in {"learned", "relearning2"}
                                THEN [exited EXCEPT ![currentCard] = st] ELSE exited
                 /\ settled' = "fulfilled"
                 /\ lastOutcome' = "ok"
                 /\ logged' = FALSE

\* -------------------------------------------------------- steps of the page
\* the gate called onClick (line 351): () => handleInitialFlip(!isFlipped)
Flip ==
    /\ CardView
    /\ handleInitialFlip(~isFlipped)
    /\ UNCHANGED <<arrays, cardState, reviewWords, reviewComplete, reviewStats,
                   pending, fetching, pageObs, gateAll>>

\* the Again or the Good button is clicked (lines 437-467): handleReview runs
\* up to its await, with reviewFlashcard(reviewWords[0].key, isCorrect) issued
StartReview(isCorrect) ==
    /\ CardView
    /\ hasFlipped
    /\ reviewStats.correct + reviewStats.incorrect + Len(pending) < MaxReviews
    /\ Len(pending) < MaxPending
    /\ pending' = Append(pending, [key |-> arrays[reviewWords][1],
                                   isCorrect |-> isCorrect, g |-> "cur"])
    /\ UNCHANGED <<arrays, cardState, reviewWords, isFlipped, reviewComplete,
                   reviewStats, hasFlipped, fetching>>
    /\ UNCHANGED <<pageObs, gateAll>>

\* reviewFlashcard of the i-th pending invocation resolved
ReviewResolved(i) ==
    /\ handleReviewResolved(pending[i])
    /\ pending' = Remove(pending, i)
    /\ UNCHANGED <<fetching, gateAll>>

\* reviewFlashcard of the i-th pending invocation rejected
ReviewRejected(i) ==
    /\ handleReviewRejected(pending[i])
    /\ pending' = Remove(pending, i)
    /\ UNCHANGED <<fetching, gateAll>>

\* resetReview, lines 175-179; its button is on the "Review Complete!" screen
\* (lines 211, 265)
resetReview ==
    /\ reviewComplete
    /\ reviewComplete' = FALSE
    /\ reviewStats' = [correct |-> 0, incorrect |-> 0]
    /\ fetching' = TRUE
    /\ UNCHANGED <<arrays, cardState, reviewWords, isFlipped, hasFlipped, pending>>
    /\ UNCHANGED <<pageObs, gateAll>>

\* the effect of lines 131-139 without setReviewWords (line 133)
wordsEffectKeepsQueue(batch) ==
    /\ reviewWords' = "old"
    /\ IF Len(batch.keys) > 0
         THEN /\ reviewComplete' = FALSE
              /\ reviewStats' = [correct |-> 0, incorrect |-> 0]
         ELSE UNCHANGED <<reviewComplete, reviewStats>>

\* the effect of lines 131-139, run when the words prop is a new array: for a
\* batch with cards reviewWords becomes the new array; for an empty batch
\* nothing is set and reviewWords stays the array it was, by now an earlier one
wordsEffect(batch) ==
    IF Len(batch.keys) > 0
      THEN /\ reviewWords' = "cur"
           /\ reviewComplete' = FALSE
           /\ reviewStats' = [correct |-> 0, incorrect |-> 0]
      ELSE /\ reviewWords' = "old"
           /\ UNCHANGED <<reviewComplete, reviewStats>>

\* The parent renders the page with the fetched batch as a new words array, and
\* the effect of lines 131-139 runs.  The array that was the prop becomes an
\* earlier one, which only the handlers of earlier renders still hold.  Every
\* earlier array is empty by then (EarlierArraysEmpty) and an empty array is
\* never written to, so one entry stands for all of them.
LoadBatch(batch) ==
    /\ fetching
    /\ fetching' = FALSE
    /\ arrays' = [cur |-> batch.keys, old |-> arrays.cur]
    /\ cardState' = [cur |-> StatesOf(batch),
                     old |-> IF arrays.cur = <<>> THEN NoCards ELSE cardState.cur]
    /\ pending' = [i \in DOMAIN pending |-> [pending[i] EXCEPT !.g = "old"]]
    /\ wordsEffect(batch)
    /\ exited' = NoCards
    /\ UNCHANGED <<isFlipped, hasFlipped>>
    /\ UNCHANGED <<settled, lastOutcome, logged, counted, gateAll>>

\* an array that stopped being the words prop is empty, and stays empty
EarlierArraysEmpty == arrays.old = <<>> /\ (fetching => arrays.cur = <<>>)

\* --------------------------------------------------------------- TapSafeDiv
\* `tapStart &&` of line 46: null and 0 are falsy
Truthy(t) == t # NULL /\ t # 0

\* line 28 testing for the wrong event type
IgnoredMouseDownWrongType(type) == wasTouchRef /\ type = "mouseup"

\* line 28: a mousedown after any touch on this control is dropped
IgnoredMouseDown(type) == wasTouchRef /\ type = "mousedown"

\* line 39 testing for the wrong event type
IgnoredMouseUpWrongType(type) == type = "mousedown" /\ wasTouchRef

\* line 39: a mouseup after any touch on this control is dropped
IgnoredMouseUp(type) == type = "mouseup" /\ wasTouchRef

\* lines 45-48: too slow, or not the primary button
Discarded(button) ==
    \/ (Truthy(tapStartTimeRef) /\ now - tapStartTimeRef > TapLimitMs)
    \/ (button # NoButton /\ button # 0)

\* handleTapStart returning at once while a timeout is pending
handleTapStartIdleOnly(type) ==
    /\ IF isExecutingRef
         THEN UNCHANGED <<wasTouchRef, tapStartTimeRef>>
         ELSE IF type = "touchstart"
                THEN /\ wasTouchRef' = TRUE
                     /\ tapStartTimeRef' = now
                ELSE IF IgnoredMouseDown(type)
                       THEN UNCHANGED <<wasTouchRef, tapStartTimeRef>>
                       ELSE /\ tapStartTimeRef' = now
                            /\ UNCHANGED wasTouchRef
    /\ UNCHANGED <<isLockedRef, isExecutingRef, timers>>

\* handleTapStart, lines 24-35
handleTapStart(type) ==
    /\ IF type = "touchstart"
         THEN /\ wasTouchRef' = TRUE
              /\ tapStartTimeRef' = now
         ELSE IF IgnoredMouseDown(type)
                THEN UNCHANGED <<wasTouchRef, tapStartTimeRef>>
                ELSE /\ tapStartTimeRef' = now
                     /\ UNCHANGED wasTouchRef
    /\ UNCHANGED <<isLockedRef, isExecutingRef, timers>>

\* handleTapEnd without line 58: isExecutingRef is never set
handleTapEndNeverExecuting(type, button) ==
    IF IgnoredMouseUp(type)
      THEN UNCHANGED gateVars
      ELSE IF Discarded(button)
        THEN UNCHANGED gateVars
        ELSE IF isExecutingRef
          THEN /\ isLockedRef' = TRUE
               /\ UNCHANGED <<isExecutingRef, tapStartTimeRef, wasTouchRef, timers>>
          ELSE /\ timers' = Append(timers, [due |-> now + DebounceMs])
               /\ UNCHANGED <<isLockedRef, isExecutingRef, tapStartTimeRef, wasTouchRef>>

\* handleTapEnd, lines 37-70
handleTapEnd(type, button) ==
    IF IgnoredMouseUp(type)
      THEN UNCHANGED gateVars
      ELSE IF Discarded(button)
        THEN UNCHANGED gateVars
        ELSE IF isExecutingRef
          THEN /\ isLockedRef' = TRUE
               /\ UNCHANGED <<isExecutingRef, tapStartTimeRef, wasTouchRef, timers>>
          ELSE /\ isExecutingRef' = TRUE
               /\ timers' = Append(timers, [due |-> now + DebounceMs])
               /\ UNCHANGED <<isLockedRef, tapStartTimeRef, wasTouchRef>>

\* a callback that calls onClick() whether or not the lock is set
timeoutCallbackIgnoresLock(t, fired) ==
    /\ fired = 1
    /\ isLockedRef' = FALSE
    /\ isExecutingRef' = FALSE

\* the callback without line 66: isExecutingRef is never cleared
timeoutCallbackStaysExecuting(t, fired) ==
    /\ IF ~isLockedRef
         THEN /\ fired = 1
              /\ UNCHANGED isLockedRef
         ELSE /\ fired = 0
              /\ isLockedRef' = FALSE
    /\ UNCHANGED isExecutingRef

\* the callback without line 64: the lock outlives the timeout
timeoutCallbackKeepsLock(t, fired) ==
    /\ fired = IF ~isLockedRef THEN 1 ELSE 0
    /\ UNCHANGED isLockedRef
    /\ isExecutingRef' = FALSE

\* the setTimeout callback, lines 60-67; fired is the number of onClick() calls
\* it makes. onClick is a prop of TapSafeDiv: the gate only counts its calls.
timeoutCallback(t, fired) ==
    /\ IF ~isLockedRef
         THEN /\ fired = 1
              /\ UNCHANGED isLockedRef
         ELSE /\ fired = 0
              /\ isLockedRef' = FALSE
    /\ isExecutingRef' = FALSE

\* --------------------------------------------------- observers of the gate
NoWin == [open |-> FALSE, by |-> "none", taps |-> 0, seen |-> "nothing", base |-> 0]

\* a release that is a tap by the rules of the gate: not a mouse event after a
\* touch, within TapLimitMs of the recorded press-down, primary button or touch
LegitRelease(type, button) ==
    /\ ~(type = "mouseup" /\ wasTouchRef)
    /\ ~(tapStartTimeRef # NULL /\ now - tapStartTimeRef > TapLimitMs)
    /\ button \in {NoButton, 0}

Cap(n, m) == IF n < m THEN n ELSE m

\* win.seen: what was handled since the window opened: "nothing", "smd" (one
\* mousedown on a latched control), "smd-smu" (then one mouseup), or "other"
WinAfterDown(type) ==
    IF ~win.open THEN win
    ELSE IF type = "mousedown" /\ wasTouchRef /\ win.seen = "nothing"
           THEN [win EXCEPT !.seen = "smd"]
           ELSE [win EXCEPT !.seen = "other"]

\* a release opens a window when it starts a timeout, else it is counted
WinAfterUp(type, button) ==
    IF Len(timers') > Len(timers) /\ ~win.open
      THEN [open |-> TRUE, by |-> IF type = "touchend" THEN "touch" ELSE "mouse",
            taps |-> 1, seen |-> "nothing", base |-> clicks]
      ELSE IF ~win.open THEN win
      ELSE [win EXCEPT
              !.taps = IF LegitRelease(type, button) THEN Cap(@ + 1, 3) ELSE @,
              !.seen = IF type = "mouseup" /\ wasTouchRef /\ @ = "smd"
                         THEN "smd-smu" ELSE "other"]

\* ------------------------------------------------------ steps of the gate
\* A press is its press-down time, its event family and its button; two fingers
\* may go down at the same time, so the presses held are a bag.
Press(type, b) == [t |-> now, family |-> type, button |-> b]
Held == BagToSet(down)
CanPress == BagCardinality(down) < MaxPointers

\* onTouchStart (line 75): a finger goes down on the control
TouchStart ==
    /\ CanPress
    /\ handleTapStart("touchstart")
    /\ down' = down (+) SetToBag({Press("touch", NoButton)})
    /\ win' = WinAfterDown("touchstart")
    /\ UNCHANGED <<now, clicks, lastClickAt, pageVars, pageObs>>

\* onMouseDown (line 74): mouse button b, not held yet, goes down on the control
MouseDown(b) ==
    /\ CanPress
    /\ \A q \in Held : q.button # b
    /\ handleTapStart("mousedown")
    /\ down' = down (+) SetToBag({Press("mouse", b)})
    /\ win' = WinAfterDown("mousedown")
    /\ UNCHANGED <<now, clicks, lastClickAt, pageVars, pageObs>>

\* onTouchEnd (line 77): the finger of press p is lifted
TouchEnd(p) ==
    /\ p.family = "touch"
    /\ handleTapEnd("touchend", NoButton)
    /\ down' = down (-) SetToBag({p})
    /\ win' = WinAfterUp("touchend", NoButton)
    /\ UNCHANGED <<now, clicks, lastClickAt, pageVars, pageObs>>

\* onMouseUp (line 76): the button of press p is released
MouseUp(p) ==
    /\ p.family = "mouse"
    /\ handleTapEnd("mouseup", p.button)
    /\ down' = down (-) SetToBag({p})
    /\ win' = WinAfterUp("mouseup", p.button)
    /\ UNCHANGED <<now, clicks, lastClickAt, pageVars, pageObs>>

\* the oldest pending timeout runs; a timeout never runs before it is due
Timeout ==
    /\ timers # <<>>
    /\ now >= Head(timers).due
    /\ \E fired \in {0, 1} :
         /\ timeoutCallback(Head(timers), fired)
         /\ clicks' = clicks + fired
         /\ lastClickAt' = IF fired = 1 THEN now ELSE lastClickAt
    /\ timers' = Tail(timers)
    /\ win' = IF Len(timers) = 1 THEN [win EXCEPT !.open = FALSE] ELSE win
    /\ UNCHANGED <<tapStartTimeRef, wasTouchRef, now, down, pageVars, pageObs>>

\* time passes
TickClock ==
    /\ now < MaxTicks * Tick
    /\ now' = now + Tick
    /\ UNCHANGED <<gateVars, down, clicks, lastClickAt, win, pageVars, pageObs>>

GateInit ==
    /\ isLockedRef = FALSE
    /\ isExecutingRef = FALSE
    /\ tapStartTimeRef = NULL
    /\ wasTouchRef = FALSE
    /\ timers = <<>>
    /\ now = StartTime
    /\ down = EmptyBag
    /\ clicks = 0
    /\ lastClickAt = NULL
    /\ win = NoWin

PageInit ==
    /\ \E batch \in Batches :
         /\ arrays = [cur |-> batch.keys, old |-> <<>>]
         /\ cardState = [cur |-> StatesOf(batch), old |-> NoCards]
    /\ reviewWords = "cur"
    /\ isFlipped = FALSE
    /\ reviewComplete = FALSE
    /\ reviewStats = [correct |-> 0, incorrect |-> 0]
    /\ hasFlipped = FALSE
    /\ pending = <<>>
    /\ fetching = FALSE
    /\ settled = "none"
    /\ lastOutcome = "none"
    /\ logged = FALSE
    /\ counted = 0
    /\ exited = NoCards

Init == GateInit /\ PageInit

GateNext ==
    \/ TouchStart
    \/ \E b \in Buttons : MouseDown(b)
    \/ \E p \in Held : TouchEnd(p)
    \/ \E p \in Held : MouseUp(p)
    \/ Timeout
    \/ TickClock

PageNext ==
    \/ Flip
    \/ \E isCorrect \in BOOLEAN : StartReview(isCorrect)
    \/ \E i \in DOMAIN pending : ReviewResolved(i)
    \/ \E i \in DOMAIN pending : ReviewRejected(i)
    \/ resetReview
    \/ \E batch \in Batches : LoadBatch(batch)

\* the gate alone, in front of a page that shows one card and stays as it is
InitOneCard ==
    /\ GateInit
    /\ PageInit
    /\ arrays.cur = <<1>>
    /\ cardState.cur[1] = "new"
SpecGate == InitOneCard /\ [][GateNext]_vars

\* the page alone: the gate is its Flip step
SpecPage == Init /\ [][PageNext]_vars

\* The gate with time that passes and timeouts that run: the browser runs the
\* callback of setTimeout (line 60) once its delay is over, whatever other
\* events it has to handle.
SpecGateFair == SpecGate /\ WF_vars(TickClock) /\ WF_vars(Timeout)

\* ===================================================================== claims
Correct(i) == IF pending[i].isCorrect THEN 1 ELSE 0

\* C1: when reviewFlashcard of a handleReview invocation fails, the queue
\* (contents and order), the state of every card and the completion flag are
\* what they were before
C1_FailureChangesNothing ==
    [][\A i \in DOMAIN pending :
         ReviewRejected(i) =>
           UNCHANGED <<arrays, cardState, reviewWords, reviewComplete>>]_vars

\* a record call failed with cards in the queue, and the queue is still there
C1_Witness ==
    /\ lastOutcome = "recordfailure"
    /\ Len(words) = MaxItems
    /\ ~reviewComplete

\* C2: a handleReview whose record call succeeds adds exactly 1 to correct when
\* isCorrect and exactly 1 to incorrect otherwise, leaving the other counter;
\* one whose record call fails changes neither
C2_StatsCountEachAnswer ==
    [][\A i \in DOMAIN pending :
         /\ ReviewResolved(i) =>
              reviewStats' = [correct |-> reviewStats.correct + Correct(i),
                              incorrect |-> reviewStats.incorrect + 1 - Correct(i)]
         /\ ReviewRejected(i) => reviewStats' = reviewStats]_vars

\* both counters have counted, and the latest record call failed
C2_Witness ==
    /\ reviewStats.correct >= 1
    /\ reviewStats.incorrect >= 1
    /\ lastOutcome = "recordfailure"

C4_RequeueRows ==
    [][\A i \in DOMAIN pending :
         LET g == pending[i].g
             ok == pending[i].isCorrect
         IN (ReviewResolved(i) /\ arrays[g] # <<>>) =>
              LET card == Head(arrays[g])
                  st == cardState[g][card]
              IN ((~ok /\ st \in {"learned", "relearning1", "relearning2"})
                    \/ (ok /\ st = "relearning1")) =>
                   /\ cardState'[g][card] = IF ok THEN "relearning2" ELSE "relearning1"
                   /\ arrays'[g] = Append(Tail(arrays[g]), card)
                   /\ \A k \in Keys \ {card} : cardState'[g][k] = cardState[g][k]]_vars

\* the only answer so far was a correct one for card 1 in relearning1: it is
\* now in relearning2 behind card 2
C4_Witness ==
    /\ words = <<2, 1>>
    /\ cardState.cur[1] = "relearning2"
    /\ reviewStats = [correct |-> 1, incorrect |-> 0]
    /\ lastOutcome = "ok"

\* C5: a card in state learned or relearning2 that is answered correctly in a
\* successful handleReview leaves the queue with its state unchanged and is
\* not in the queue again until a new batch is loaded
C5_ExitedStaysOut ==
    \A k \in Keys :
      exited[k] # NoState =>
        /\ k \notin Range(words)
        /\ cardState.cur[k] = exited[k]

\* card 1 left as learned on a correct answer, then card 2 was answered
\* incorrectly and is queued again
C5_Witness ==
    /\ exited[1] = "learned"
    /\ words = <<2>>
    /\ cardState.cur[2] = "relearning1"
    /\ reviewStats = [correct |-> 1, incorrect |-> 1]

\* the window record is that of a touch tap followed by nothing but one
\* mousedown and one mouseup
TouchThenMousePair == win.by = "touch" /\ win.seen = "smd-smu"

\* C6: a touch-down/touch-up pair (a valid tap, no window open) followed by a
\* synthetic mouse-down/mouse-up pair gives exactly one onClick(): while the
\* window is open nothing has fired, one timeout is pending and the lock is
\* not set; when it has closed onClick() was called once
C6_TouchThenMouseOnce ==
    TouchThenMousePair =>
      IF win.open
        THEN clicks = win.base /\ Len(timers) = 1 /\ ~isLockedRef /\ isExecutingRef
        ELSE clicks = win.base + 1 /\ timers = <<>>

\* such a window has closed
C6_Witness ==
    /\ TouchThenMousePair
    /\ ~win.open
    /\ clicks = 1

\* C7 as claimed: two releases within the window of an accepted release give
\* exactly one onClick()
C7_TwoReleasesOneActivation ==
    (~win.open /\ win.taps = 2) => clicks = win.base + 1

\* C7 as amended: a window in which no second tap came in gives exactly one
\* onClick(); one in which a second tap came in gives none
C7_SecondTapSuppresses ==
    (~win.open /\ win.by # "none") =>
      /\ win.taps = 1 => clicks = win.base + 1
      /\ win.taps >= 2 => clicks = win.base

\* a window with two taps has closed, and nothing fired
C7_Witness ==
    /\ ~win.open
    /\ win.taps = 2
    /\ clicks = 0

\* the release of press p is handled
Release(p) == TouchEnd(p) \/ MouseUp(p)

\* C8 as claimed: a release more than 200 ms after its press-down starts no
\* timeout, whatever the state of the gate and the event family; a release of
\* the primary button or of a finger within 200 ms is not discarded
C8_LongPressNeverActivates ==
    [][\A p \in Held :
         /\ (Release(p) /\ now - p.t > TapLimitMs) =>
              (timers' = timers /\ clicks' = clicks)
         /\ (Release(p) /\ now - p.t <= TapLimitMs /\ p.button \in {NoButton, 0}
               /\ ~(p.family = "mouse" /\ wasTouchRef)) =>
              (Len(timers') = Len(timers) + 1 \/ (isExecutingRef /\ isLockedRef'))]_vars

\* C9: onClick() fires at most once per 250 ms window: two calls are at least
\* 250 ms apart, and at most one timeout is pending at any time
C9_OncePerWindow ==
    [][/\ Len(timers') <= 1
       /\ clicks' # clicks =>
            /\ clicks' = clicks + 1
            /\ lastClickAt # NULL => now' - lastClickAt >= DebounceMs]_vars

\* onClick() was called twice
C9_Witness == clicks = 2 /\ lastClickAt # NULL

\* C10: a release of a non-primary button, and a mousedown or mouseup on a
\* control that has seen a touch, start no timeout, call nothing and change
\* none of the refs; wasTouchRef, once true, stays true
C10_IgnoredEventsChangeNothing ==
    [][/\ \A p \in Held :
            (MouseUp(p) /\ (p.button # 0 \/ wasTouchRef)) =>
              (UNCHANGED gateVars /\ clicks' = clicks)
       /\ \A b \in Buttons :
            (MouseDown(b) /\ wasTouchRef) => (UNCHANGED gateVars /\ clicks' = clicks)
       /\ wasTouchRef => wasTouchRef']_vars

\* a secondary button is held on a control that has seen a touch, and its
\* press-down is not the recorded one
C10_Witness ==
    /\ wasTouchRef
    /\ \E p \in Held : p.family = "mouse" /\ p.button = 2 /\ tapStartTimeRef # p.t
    /\ isExecutingRef

\* the words array a pending invocation will splice
QueueOf(i) == arrays[pending[i].g]

\* C11: a handleReview call that removed the head card leaves reviewComplete
\* true if the array is empty after it; reviewComplete implies that the queue
\* on screen and the words prop are empty; reviewComplete turns true only in
\* such a call and never while a batch is being fetched, turns false only in
\* resetReview, and a fetch that resetReview started ends only with the next
\* batch: so it turns true at most once between two batches
C11_CompleteIffQueueEmptied ==
    [][/\ \A i \in DOMAIN pending :
            (ReviewResolved(i) /\ QueueOf(i) # <<>> /\ arrays'[pending[i].g] = <<>>)
              => reviewComplete'
       /\ reviewComplete' => (arrays'[reviewWords'] = <<>> /\ words' = <<>>)
       /\ (~reviewComplete /\ reviewComplete') =>
            (~fetching /\ \E i \in DOMAIN pending : ReviewResolved(i))
       /\ (reviewComplete /\ ~reviewComplete') => (resetReview /\ fetching')
       /\ (fetching /\ ~fetching') => \E batch \in Batches : LoadBatch(batch)]_vars

\* the last card of the session was answered and left the queue
C11_Witness ==
    /\ reviewComplete
    /\ arrays[reviewWords] = <<>>
    /\ lastOutcome = "ok"
    /\ reviewStats.correct + reviewStats.incorrect >= MaxItems

\* C12: resetReview leaves both counters of reviewStats at zero and
\* reviewComplete false, and asks for a fresh batch; when the batch arrives as
\* the words prop, the queue on screen holds the cards of the batch, in the
\* order and the states of the batch, for an empty batch too
C12_ResetThenBatchIsQueue ==
    [][/\ resetReview =>
            /\ reviewStats' = [correct |-> 0, incorrect |-> 0]
            /\ ~reviewComplete'
            /\ fetching'
       /\ \A batch \in Batches :
            LoadBatch(batch) =>
              /\ arrays'[reviewWords'] = batch.keys
              /\ \A k \in Range(batch.keys) :
                   cardState'[reviewWords'][k] = batch.state[k]]_vars

\* a batch with cards arrived after a session was completed and reset
C12_Witness ==
    /\ lastOutcome = "ok"
    /\ ~fetching
    /\ ~reviewComplete
    /\ reviewStats = [correct |-> 0, incorrect |-> 0]
    /\ Len(arrays[reviewWords]) = MaxItems
    /\ pending = <<>>

\* the i-th pending invocation finds a card to remove
RemovesHead(i) == ReviewResolved(i) /\ QueueOf(i) # <<>>

\* the card the i-th pending invocation removed is not in its array afterwards
NotRequeued(i) == arrays'[pending[i].g] = Tail(QueueOf(i))

\* C13: updateRemainingWordCount is called once in every handleReview call
\* that removes the head card without pushing it back, whatever the state of
\* the card and the answer; it is not called when the card is pushed back or
\* when reviewFlashcard rejects
C13_NotifiedOncePerExit ==
    [][\A i \in DOMAIN pending :
         /\ RemovesHead(i) => (counted' = IF NotRequeued(i) THEN 1 ELSE 0)
         /\ ReviewRejected(i) => counted' = 0]_vars

\* no card is in the array twice
NoDuplicates(seq) == \A i, j \in DOMAIN seq : seq[i] = seq[j] => i = j

\* C14: a batch has distinct keys, and after any handleReview calls, resolved,
\* rejected or overlapping, no card is in a words array more than once
C14_NoDuplicateCards ==
    NoDuplicates(arrays.cur) /\ NoDuplicates(arrays.old)

\* a card was pushed back behind the other one while an invocation is pending
C14_Witness ==
    /\ Len(words) = MaxItems
    /\ words[1] # 1
    /\ lastOutcome = "ok"
    /\ Len(pending) >= 1

\* C15: an incorrect answer to a card in any of the four states leaves the
\* card in relearning1 and at the end of its array
C15_IncorrectFunnelsToRelearning1 ==
    [][\A i \in DOMAIN pending :
         (RemovesHead(i) /\ ~pending[i].isCorrect) =>
           /\ cardState'[pending[i].g][Head(QueueOf(i))] = "relearning1"
           /\ arrays'[pending[i].g] = Append(Tail(QueueOf(i)), Head(QueueOf(i)))]_vars

\* C16: while reviewFlashcard of an invocation is pending, before and after
\* the step, the queue on screen, the words arrays and reviewStats stay as
\* they are, also when a second invocation was started in the meantime
C16_NothingChangesWhilePending ==
    [][(pending # <<>> /\ pending' # <<>>) =>
         /\ arrays'[reviewWords'] = arrays[reviewWords]
         /\ UNCHANGED reviewStats]_vars

\* C17: an invocation whose reviewFlashcard resolved finds a card in its
\* array, and the card it removes is the one whose key it sent; so the stats
\* are counted only together with a removal
C17_RemovedCardIsRecordedCard ==
    [][\A i \in DOMAIN pending :
         ReviewResolved(i) =>
           /\ QueueOf(i) # <<>>
           /\ Head(QueueOf(i)) = pending[i].key]_vars

\* C18: while a timeout is pending (isExecutingRef), a press-down on the
\* control leaves the recorded press-down time as it was
C18_NoPressRecordedInWindow ==
    [][isExecutingRef =>
         /\ TouchStart => UNCHANGED tapStartTimeRef
         /\ \A b \in Buttons : MouseDown(b) => UNCHANGED tapStartTimeRef]_vars

\* C18, amended: while a timeout is pending a touchstart, and a mousedown on
\* a control that has seen no touch, record their time as the press-down time
\* like at any other moment; a release in that time starts no second timeout
\* and calls nothing, so at most one timeout is pending
C18_WindowArmsButStartsNoTimer ==
    [][/\ isExecutingRef =>
            /\ TouchStart => tapStartTimeRef' = now
            /\ \A b \in Buttons :
                 (MouseDown(b) /\ ~wasTouchRef) => tapStartTimeRef' = now
            /\ \A p \in Held :
                 Release(p) => (timers' = timers /\ clicks' = clicks)
       /\ Len(timers') <= 1]_vars

\* a press-down was recorded after the pending timeout was started
C18_Witness ==
    /\ isExecutingRef
    /\ timers # <<>>
    /\ tapStartTimeRef > Head(timers).due - DebounceMs

\* C19: a release that is a tap, arriving while a timeout is pending, calls
\* nothing, starts nothing and sets isLockedRef; the timeout that then runs
\* does not call onClick() and clears the flag.  isLockedRef is true only while
\* isExecutingRef is, and both are false right after every timeout
C19_LockOnlyInsideWindow ==
    [][/\ \A p \in Held :
            /\ (TouchEnd(p) /\ isExecutingRef /\ LegitRelease("touchend", NoButton))
                 => (isLockedRef' /\ timers' = timers /\ clicks' = clicks)
            /\ (MouseUp(p) /\ isExecutingRef /\ LegitRelease("mouseup", p.button))
                 => (isLockedRef' /\ timers' = timers /\ clicks' = clicks)
       /\ Timeout =>
            /\ ~isLockedRef' /\ ~isExecutingRef'
            /\ isLockedRef => clicks' = clicks
       /\ isLockedRef' => isExecutingRef']_vars

\* a timeout has run with the flag set by two more taps in its window, after
\* an earlier timeout had called onClick(): nothing was called this time, and
\* both flags are false
C19_Witness ==
    /\ ~win.open
    /\ win.taps = 3
    /\ win.base = 1
    /\ clicks = 1
    /\ ~isLockedRef
    /\ ~isExecutingRef

\* the clock of the model stops at MaxTicks * Tick: a timeout due by then
EndOfTime == MaxTicks * Tick
DueInTime == timers # <<>> /\ Head(timers).due <= EndOfTime

\* C20: every timeout that a release started runs, whatever is pressed and
\* released before it does, and leaves isExecutingRef and isLockedRef false
\* with no timeout pending; a release that is a tap, handled in such a state,
\* starts a timeout again
C20_WindowEventuallyCloses ==
    /\ (isExecutingRef /\ DueInTime)
         ~> (~isExecutingRef /\ ~isLockedRef /\ timers = <<>>)
    /\ [][\A p \in Held :
            /\ (TouchEnd(p) /\ ~isExecutingRef /\ LegitRelease("touchend", NoButton))
                 => (isExecutingRef' /\ Len(timers') = 1)
            /\ (MouseUp(p) /\ ~isExecutingRef /\ LegitRelease("mouseup", p.button))
                 => (isExecutingRef' /\ Len(timers') = 1)]_vars

\* a timeout is pending again after an earlier one, in whose window presses
\* and releases were handled, has run
C20_Witness ==
    /\ isExecutingRef
    /\ DueInTime
    /\ win.open
    /\ win.base >= 1
    /\ lastClickAt # NULL

\* the correct answers array g still needs: two for a card in relearning1,
\* one for any other card
AnswersLeft(arr, st, g) ==
    Len(arr[g]) + Cardinality({j \in DOMAIN arr[g] : st[g][arr[g][j]] = "relearning1"})

\* the state of the card the i-th pending invocation removes
HeadState(i) == cardState[pending[i].g][Head(QueueOf(i))]

\* C21: every correct answer brings the queue one step nearer to empty, and
\* the empty queue is the complete session; a card in relearning1 stays in
\* the queue whatever the answer and reaches relearning2 only by a correct
\* one, a card in relearning2 leaves only by a correct answer; and a card
\* answered incorrectly stays in the queue
C21_CorrectAnswersEndSession ==
    [][\A i \in DOMAIN pending :
         RemovesHead(i) =>
           /\ pending[i].isCorrect =>
                /\ AnswersLeft(arrays', cardState', pending[i].g)
                     = AnswersLeft(arrays, cardState, pending[i].g) - 1
                /\ AnswersLeft(arrays', cardState', pending[i].g) = 0 => reviewComplete'
           /\ HeadState(i) = "relearning1" =>
                /\ ~NotRequeued(i)
                /\ cardState'[pending[i].g][Head(QueueOf(i))] =
                     IF pending[i].isCorrect THEN "relearning2" ELSE "relearning1"
           /\ HeadState(i) = "relearning2" => (NotRequeued(i) <=> pending[i].isCorrect)
           /\ ~pending[i].isCorrect => ~NotRequeued(i)]_vars

\* the release of press p gets past line 39: it is measured at line 46
Measured(p) == Release(p) /\ ~(p.family = "mouse" /\ wasTouchRef)

\* C22: every press-down that is not ignored sets tapStartTimeRef; a release
\* that is measured finds there the time of its own press-down, and leaves
\* tapStartTimeRef null
C22_MeasuredFromOwnPress ==
    [][/\ TouchStart => tapStartTimeRef' = now
       /\ \A b \in Buttons : (MouseDown(b) /\ ~wasTouchRef) => tapStartTimeRef' = now
       /\ \A p \in Held :
            Measured(p) => (tapStartTimeRef = p.t /\ tapStartTimeRef' = NULL)]_vars

====
